---------------------------- MODULE Spec2Model ----------------------------
(***************************************************************************)
(* claw-usage: a report over OpenClaw session transcripts.                 *)
(*                                                                         *)
(* src/index.js holds two programs of the same shape:                      *)
(*   lines   1-270  "exact" mode: counts every toolCall / tool_use block;  *)
(*   lines 272-565  "fuzzy" mode: scans the commands of exec blocks for    *)
(*                  the names of the installed claw-* skills.              *)
(* The variable mode says which of the two is running.                     *)
(*                                                                         *)
(* JavaScript strings are TLA+ strings (TLC evaluates \o, Len and SubSeq   *)
(* on them).  Other JavaScript values are records tagged by typeof.        *)
(* A Date is the civil date [y, m, d] it denotes: the time of day and the  *)
(* offset of the local zone are not modelled, and every clock reading of   *)
(* one run falls on the same day.                                          *)
(***************************************************************************)
EXTENDS Integers, Sequences, FiniteSets, TLC

VARIABLES
    mode,              \* "exact" | "fuzzy": which program of src/index.js runs
    argv,              \* process.argv.slice(2)
    now,               \* the clock: what new Date() denotes, [y, m, d]
    sessionsDir,       \* readdirSync(SESSIONS_DIR) with each file's lines
    skillsDir,         \* readdirSync(SKILLS_DIR): [ok, entries]
    pc,                \* position of the run
    flags,             \* the parsed command line
    options,           \* the argument of analyze
    installedTools,    \* getInstalledTools()  (fuzzy mode)
    files,             \* the .jsonl files, in readdir order
    targetDates,       \* the resolved date filter
    toolCounts,        \* name -> count                 (a JavaScript object)
    sessionCounts,     \* name -> Set of session ids    (exact mode)
    sessionDetails,    \* session id -> {date, tools}   (exact mode)
    toolExamples,      \* name -> commands              (fuzzy mode)
    totalCalls,
    sessionsAnalyzed,
    fi,                \* index in files of the next file to visit
    sessionId,         \* basename of the file being read (exact mode)
    lines,             \* lines of the current file still to read
    calls,             \* events of the current line still to accumulate
    result             \* what the run reports

vars == <<mode, argv, now, sessionsDir, skillsDir, pc, flags, options,
          installedTools, files, targetDates, toolCounts, sessionCounts,
          sessionDetails, toolExamples, totalCalls, sessionsAnalyzed, fi,
          sessionId, lines, calls, result>>

inputs == <<mode, argv, now, sessionsDir, skillsDir>>

aggregate == <<toolCounts, sessionCounts, sessionDetails, toolExamples,
               totalCalls, sessionsAnalyzed>>

-----------------------------------------------------------------------------
(* Bounds of the model.                                                    *)

MaxArgs == 2       \* arguments on the command line
MaxFiles == 2      \* entries of the sessions directory
MaxTools == 2      \* entries of the skills directory
MaxPieces == 3     \* pieces a generated command is built from

-----------------------------------------------------------------------------
(* JavaScript values.                                                      *)

Undefined == [t |-> "undefined", s |-> "", n |-> 0]
Null == [t |-> "null", s |-> "", n |-> 0]
JTrue == [t |-> "boolean", s |-> "true", n |-> 1]
JStr(str) == [t |-> "string", s |-> str, n |-> 0]
JNum(num) == [t |-> "number", s |-> "", n |-> num]
NaN == [t |-> "NaN", s |-> "", n |-> 0]
\* An inherited member of Object.prototype: a function (or, for __proto__,
\* the prototype object itself).
JProto(key) == [t |-> "function", s |-> key, n |-> 0]

\* ToBoolean
Truthy(v) ==
    CASE v.t = "undefined" -> FALSE
      [] v.t = "null" -> FALSE
      [] v.t = "NaN" -> FALSE
      [] v.t = "string" -> v.s # ""
      [] v.t = "number" -> v.n # 0
      [] OTHER -> TRUE

\* a || b
Or(a, b) == IF Truthy(a) THEN a ELSE b

\* A plain JavaScript object: its own keys in insertion order (the order of
\* Object.entries) and their values.
EmptyObject == [keys |-> <<>>, at |-> <<>>]

Has(obj, key) == key \in DOMAIN obj.at

\* Names every plain object inherits from Object.prototype.
ObjectPrototypeKeys ==
    {"constructor", "__proto__", "hasOwnProperty", "isPrototypeOf",
     "propertyIsEnumerable", "toLocaleString", "toString", "valueOf",
     "__defineGetter__", "__defineSetter__", "__lookupGetter__",
     "__lookupSetter__"}

\* obj[key]: the own property, else the inherited one, else undefined.
Get(obj, key) ==
    IF Has(obj, key) THEN obj.at[key]
    ELSE IF key \in ObjectPrototypeKeys THEN JProto(key)
    ELSE Undefined

\* obj[key] = val.  Assigning a primitive to __proto__ changes nothing.
Put(obj, key, val) ==
    IF key = "__proto__" THEN obj
    ELSE [keys |-> IF Has(obj, key) THEN obj.keys ELSE Append(obj.keys, key),
          at |-> [k \in DOMAIN obj.at \cup {key} |->
                    IF k = key THEN val ELSE obj.at[k]]]

\* String(v)
ToJSString(v) ==
    CASE v.t = "string" -> v.s
      [] v.t = "number" -> ToString(v.n)
      [] v.t = "function" ->
            IF v.s = "__proto__" THEN "[object Object]"
            ELSE "function " \o (IF v.s = "constructor" THEN "Object" ELSE v.s)
                 \o "() { [native code] }"
      [] OTHER -> v.t

\* a + 1
PlusOne(v) == IF v.t = "number" THEN JNum(v.n + 1) ELSE JStr(ToJSString(v) \o "1")

Min(a, b) == IF a < b THEN a ELSE b

-----------------------------------------------------------------------------
(* Strings.                                                                *)

At(str, i) == IF i >= 1 /\ i <= Len(str) THEN SubSeq(str, i, i) ELSE ""

Digits == "0123456789"
UpperCase == "ABCDEFGHIJKLMNOPQRSTUVWXYZ"
LowerCase == "abcdefghijklmnopqrstuvwxyz"

\* The place of each character of str in it.
PlaceIn(str) ==
    [c \in {At(str, i) : i \in 1..Len(str)} |-> CHOOSE i \in 1..Len(str) : At(str, i) = c]

DigitPlace == PlaceIn(Digits)
UpperPlace == PlaceIn(UpperCase)
LowerPlace == PlaceIn(LowerCase)

IsDigit(c) == c \in DOMAIN DigitPlace
DigitVal(c) == DigitPlace[c] - 1
IsUpper(c) == c \in DOMAIN UpperPlace
IsLower(c) == c \in DOMAIN LowerPlace

\* One character, lower-cased (the i flag of a RegExp).
LowerChar(c) == IF IsUpper(c) THEN At(LowerCase, UpperPlace[c]) ELSE c

\* The characters from..to of str in lower case, by halves.
RECURSIVE LowerBetween(_, _, _)
LowerBetween(str, from, to) ==
    IF from > to THEN ""
    ELSE IF from = to THEN LowerChar(At(str, from))
    ELSE LowerBetween(str, from, (from + to) \div 2)
         \o LowerBetween(str, (from + to) \div 2 + 1, to)

ToLower(str) == LowerBetween(str, 1, Len(str))

\* \s of a RegExp, and the characters String.prototype.trim removes.
IsSpace(c) == c \in {" ", "\t", "\n", "\r"}

\* \w of a RegExp.
IsWord(c) == IsDigit(c) \/ IsUpper(c) \/ IsLower(c) \/ c = "_"

StartsWith(str, prefix) ==
    Len(str) >= Len(prefix) /\ SubSeq(str, 1, Len(prefix)) = prefix

EndsWith(str, suffix) ==
    Len(str) >= Len(suffix)
    /\ SubSeq(str, Len(str) - Len(suffix) + 1, Len(str)) = suffix

\* str.slice(from) with from counted from 0
SliceFrom(str, from) == SubSeq(str, from + 1, Len(str))

\* str.slice(0, n)
SliceTo(str, n) == SubSeq(str, 1, Min(n, Len(str)))

\* Index of the first sep in str, 0 when there is none.
IndexOf(str, sep) ==
    IF \E i \in 1..Len(str) : At(str, i) = sep
    THEN CHOOSE i \in 1..Len(str) :
            At(str, i) = sep /\ \A j \in 1..(i - 1) : At(str, j) # sep
    ELSE 0

\* str.split(sep), sep one character
RECURSIVE Split(_, _)
Split(str, sep) ==
    LET i == IndexOf(str, sep)
    IN  IF i = 0 THEN <<str>>
        ELSE <<SubSeq(str, 1, i - 1)>> \o Split(SubSeq(str, i + 1, Len(str)), sep)

\* parseInt of a string: leading white space, a sign, then decimal digits up
\* to the first other character; NaN without a digit.
RECURSIVE SkipSpace(_, _)
SkipSpace(str, i) ==
    IF i <= Len(str) /\ IsSpace(At(str, i)) THEN SkipSpace(str, i + 1) ELSE i

RECURSIVE ReadDigits(_, _, _)
ReadDigits(str, i, acc) ==
    IF i <= Len(str) /\ IsDigit(At(str, i))
    THEN ReadDigits(str, i + 1, 10 * acc + DigitVal(At(str, i)))
    ELSE acc

ParseIntString(str) ==
    LET i == SkipSpace(str, 1)
        neg == At(str, i) = "-"
        j == IF At(str, i) \in {"-", "+"} THEN i + 1 ELSE i
    IN  IF ~IsDigit(At(str, j)) THEN NaN
        ELSE JNum((IF neg THEN -1 ELSE 1) * ReadDigits(str, j, 0))

\* parseInt(v): v is converted to a string first
parseInt(v) ==
    CASE v.t = "string" -> ParseIntString(v.s)
      [] v.t = "number" -> JNum(v.n)
      [] OTHER -> NaN


-----------------------------------------------------------------------------
(* Dates.                                                                  *)

IsLeap(y) == (y % 4 = 0 /\ y % 100 # 0) \/ y % 400 = 0

DaysInMonth(y, m) ==
    IF m = 2 THEN (IF IsLeap(y) THEN 29 ELSE 28)
    ELSE IF m \in {4, 6, 9, 11} THEN 30 ELSE 31

\* d.setDate(day) for day <= the day of d: a day below 1 runs into the
\* months before (MakeDay).
RECURSIVE MakeDay(_, _, _)
MakeDay(y, m, day) ==
    IF day >= 1 THEN [y |-> y, m |-> m, d |-> day]
    ELSE LET py == IF m = 1 THEN y - 1 ELSE y
             pm == IF m = 1 THEN 12 ELSE m - 1
         IN  MakeDay(py, pm, day + DaysInMonth(py, pm))

setDate(date, day) == MakeDay(date.y, date.m, day)

Pad2(num) == IF num < 10 THEN "0" \o ToString(num) ELSE ToString(num)

\* d.toISOString().split('T')[0], for a year of four digits
toISODate(date) ==
    ToString(date.y) \o "-" \o Pad2(date.m) \o "-" \o Pad2(date.d)

parseDate(str) ==
    IF ~Truthy(str) THEN Null
    ELSE IF str = JStr("today") THEN JStr(toISODate(now))
    ELSE IF str = JStr("yesterday") THEN JStr(toISODate(setDate(now, now.d - 1)))
    ELSE str

\* The loop of analyze over i = 0 .. numDays - 1.
\* A loop that runs once too often.
DayLoop_OneMore(numDays) ==
    [i \in 1..(numDays + 1) |-> JStr(toISODate(setDate(now, now.d - (i - 1))))]

DayLoop(numDays) ==
    [i \in 1..numDays |-> JStr(toISODate(setDate(now, now.d - (i - 1))))]

\* A resolver that looks at the day-count first.
ResolveTargetDates_DaysFirst(date, days) ==
    IF Truthy(days) THEN DayLoop(Or(parseInt(days), JNum(1)).n)
    ELSE IF Truthy(date) THEN <<parseDate(date)>>
    ELSE <<>>

\* analyze: "Filter by date if specified"
ResolveTargetDates(date, days) ==
    IF Truthy(date) THEN <<parseDate(date)>>
    ELSE IF Truthy(days) THEN DayLoop(Or(parseInt(days), JNum(1)).n)
    ELSE <<>>

-----------------------------------------------------------------------------
(* The command line.                                                       *)

\* One turn of the loop over process.argv.
ParseArg(fl, arg) ==
    IF StartsWith(arg, "--")
    THEN LET parts == Split(SliceFrom(arg, 2), "=")
             key == parts[1]
             val == IF Len(parts) >= 2 THEN JStr(parts[2]) ELSE Undefined
         IN  Put(fl, key, Or(val, JTrue))
    ELSE IF StartsWith(arg, "-") THEN Put(fl, SliceFrom(arg, 1), JTrue)
    ELSE fl

RECURSIVE ParseArgs(_, _, _)
ParseArgs(fl, args, i) ==
    IF i > Len(args) THEN fl ELSE ParseArgs(ParseArg(fl, args[i]), args, i + 1)

\* The days option main passes to analyze.
\* A main that passes the day-count as given, in either mode.
MainDays_NoDefault(fl) == Get(fl, "days")

MainDays(fl) ==
    IF mode = "exact" THEN Get(fl, "days")
    ELSE Or(Get(fl, "days"),
            IF Truthy(Get(fl, "date")) THEN Undefined ELSE JNum(1))

MainOptions(fl) ==
    [date |-> Get(fl, "date"),
     days |-> MainDays(fl),
     json |-> Get(fl, "json"),
     verbose |-> Or(Get(fl, "verbose"), Get(fl, "v")),
     sessions |-> IF mode = "exact" THEN Get(fl, "sessions") ELSE Undefined]

NoOptions ==
    [date |-> Undefined, days |-> Undefined, json |-> Undefined,
     verbose |-> Undefined, sessions |-> Undefined]

-----------------------------------------------------------------------------
(* The directories.                                                        *)

\* getInstalledTools
getInstalledTools ==
    IF ~skillsDir.ok THEN <<>>
    ELSE LET IsTool(e) == StartsWith(e.name, "claw-") /\ e.isDir
             kept == SelectSeq(skillsDir.entries, IsTool)
         IN  [i \in 1..Len(kept) |-> kept[i].name]

\* readdirSync(SESSIONS_DIR).filter(f => f.endsWith('.jsonl'))
SessionFiles ==
    LET IsJsonl(e) == EndsWith(e.name, ".jsonl")
    IN  SelectSeq(sessionsDir, IsJsonl)

\* path.basename(filepath, '.jsonl')
Basename(name) ==
    IF EndsWith(name, ".jsonl") /\ Len(name) > 6
    THEN SubSeq(name, 1, Len(name) - 6) ELSE name

\* analyze (fuzzy mode): "Initialize all installed tools with 0"
RECURSIVE InitEach(_, _, _, _)
InitEach(obj, tools, i, val) ==
    IF i > Len(tools) THEN obj
    ELSE InitEach(Put(obj, tools[i], val), tools, i + 1, val)

\* An aggregate that starts without its zero entries.
ZeroCounts_None(tools) == EmptyObject

ZeroCounts(tools) == InitEach(EmptyObject, tools, 1, JNum(0))
NoExamples(tools) == InitEach(EmptyObject, tools, 1, <<>>)

-----------------------------------------------------------------------------
(* The run.                                                                *)

\* The script body: the command line is parsed, then help or analyze.
Main ==
    /\ pc = "start"
    /\ LET fl == ParseArgs(EmptyObject, argv, 1)
       IN  /\ flags' = fl
           /\ IF Truthy(Get(fl, "h")) \/ Truthy(Get(fl, "help"))
              THEN pc' = "help" /\ options' = NoOptions
              ELSE pc' = "analyze" /\ options' = MainOptions(fl)
    /\ UNCHANGED <<inputs, installedTools, files, targetDates, aggregate, fi,
                   sessionId, lines, calls, result>>

\* analyze, up to its loop over the files.
AnalyzeBegin ==
    /\ pc = "analyze"
    /\ installedTools' = IF mode = "fuzzy" THEN getInstalledTools ELSE <<>>
    /\ files' = SessionFiles
    /\ targetDates' = ResolveTargetDates(options.date, options.days)
    /\ toolCounts' = IF mode = "fuzzy" THEN ZeroCounts(installedTools') ELSE EmptyObject
    /\ toolExamples' = IF mode = "fuzzy" THEN NoExamples(installedTools') ELSE EmptyObject
    /\ sessionCounts' = EmptyObject
    /\ sessionDetails' = EmptyObject
    /\ totalCalls' = 0
    /\ sessionsAnalyzed' = 0
    /\ fi' = 1
    /\ pc' = "loop"
    /\ UNCHANGED <<inputs, flags, options, sessionId, lines, calls, result>>

-----------------------------------------------------------------------------
(* Transcript lines.                                                       *)
(*                                                                         *)
(* A line of a file is [k, v]: k = "blank" for a line of white space,      *)
(* "bad" for text JSON.parse rejects, "json" for text it parses to v.     *)
(* v is null or a record [t |-> "object", type, content, timestamp, id],   *)
(* content standing for message?.content: undefined, a string, or          *)
(* [t |-> "array", items |-> blocks]; a block is null or                   *)
(* [t |-> "object", type, name, command], command standing for             *)
(* arguments?.command.                                                     *)

IsToolBlock(block) == block.type \in {"toolCall", "tool_use"}

\* extractToolCalls (exact mode): the loop over the blocks.  A null block
\* throws, and the catch returns what was pushed before it.
RECURSIVE BlocksExact(_, _, _, _)
BlocksExact(obj, items, i, tools) ==
    IF i > Len(items) THEN tools
    ELSE IF items[i].t = "null" THEN tools
    ELSE IF IsToolBlock(items[i])
    THEN BlocksExact(obj, items, i + 1,
            Append(tools, [name |-> items[i].name,
                           timestamp |-> obj.timestamp,
                           sessionId |-> obj.id]))
    ELSE BlocksExact(obj, items, i + 1, tools)

\* extractToolCalls (exact mode)
extractToolCalls_exact(line) ==
    IF line.k # "json" THEN <<>>
    ELSE IF line.v.t = "null" THEN <<>>
    ELSE IF line.v.type = "message" /\ Truthy(line.v.content)
            /\ line.v.content.t = "array"
    THEN BlocksExact(line.v, line.v.content.items, 1, <<>>)
    ELSE <<>>

\* The three patterns of the fuzzy matcher, for a tool name of letters,
\* digits and hyphens (it is spliced into the RegExp as it is).  The i
\* flag: cmd and tool are compared lower-cased.
MatchAt(cmd, tool, i) ==
    /\ i >= 1
    /\ i + Len(tool) - 1 <= Len(cmd)
    /\ SubSeq(cmd, i, i + Len(tool) - 1) = tool

\* \b between the characters i - 1 and i
Boundary(cmd, i) == IsWord(At(cmd, i - 1)) # IsWord(At(cmd, i))

\* new RegExp(`${tool}[\\/\\s]`, 'i')
PatternDirect(cmd, tool) ==
    \E i \in 1..Len(cmd) :
        /\ MatchAt(cmd, tool, i)
        /\ (At(cmd, i + Len(tool)) = "/" \/ IsSpace(At(cmd, i + Len(tool))))

\* new RegExp(`skills/${tool}`, 'i')
PatternPath(cmd, tool) ==
    \E i \in 1..Len(cmd) : MatchAt(cmd, "skills/" \o tool, i)

\* new RegExp(`\\b${tool}\\b`, 'i')
PatternWord(cmd, tool) ==
    \E i \in 1..Len(cmd) :
        /\ MatchAt(cmd, tool, i)
        /\ Boundary(cmd, i)
        /\ Boundary(cmd, i + Len(tool))

Patterns(cmd, tool) ==
    LET c == ToLower(cmd)
        t == ToLower(tool)
    IN  <<PatternDirect(c, t), PatternPath(c, t), PatternWord(c, t)>>

CommandMax == 100

FuzzyEvent(obj, cmd, tool) ==
    [name |-> tool, command |-> SliceTo(cmd, CommandMax), timestamp |-> obj.timestamp]

\* The loop over the patterns without its break: an event per pattern
\* that matches.
RECURSIVE PatternLoop_NoBreak(_, _, _)
PatternLoop_NoBreak(event, hits, k) ==
    IF k > Len(hits) THEN <<>>
    ELSE (IF hits[k] THEN <<event>> ELSE <<>>)
         \o PatternLoop_NoBreak(event, hits, k + 1)

\* The loop over the patterns from the k-th, hits telling which of them
\* match: the first that does pushes the event and breaks.
RECURSIVE PatternLoop(_, _, _)
PatternLoop(event, hits, k) ==
    IF k > Len(hits) THEN <<>>
    ELSE IF hits[k] THEN <<event>>
    ELSE PatternLoop(event, hits, k + 1)

\* The loop over installedTools for one exec block.
RECURSIVE ToolLoop(_, _, _, _)
ToolLoop(obj, cmd, tools, j) ==
    IF j > Len(tools) THEN <<>>
    ELSE PatternLoop(FuzzyEvent(obj, cmd, tools[j]), Patterns(cmd, tools[j]), 1)
         \o ToolLoop(obj, cmd, tools, j + 1)

\* extractToolCalls (fuzzy mode): the loop over the blocks.
RECURSIVE BlocksFuzzy(_, _, _, _, _)
BlocksFuzzy(obj, items, i, tools, found) ==
    IF i > Len(items) THEN found
    ELSE IF items[i].t = "null" THEN found
    ELSE IF IsToolBlock(items[i]) /\ items[i].name = JStr("exec")
    THEN BlocksFuzzy(obj, items, i + 1, tools,
            found \o ToolLoop(obj, Or(items[i].command, JStr("")).s, tools, 1))
    ELSE BlocksFuzzy(obj, items, i + 1, tools, found)

\* extractToolCalls (fuzzy mode)
extractToolCalls_fuzzy(line, tools) ==
    IF line.k # "json" THEN <<>>
    ELSE IF line.v.t = "null" THEN <<>>
    ELSE IF line.v.type = "message" /\ Truthy(line.v.content)
            /\ line.v.content.t = "array"
    THEN BlocksFuzzy(line.v, line.v.content.items, 1, tools, <<>>)
    ELSE <<>>

\* getSessionDate: the first line of the file, blank or not.
getSessionDate(file) ==
    LET firstLine == file.raw[1]
    IN  IF firstLine.k # "json" THEN Null
        ELSE IF firstLine.v.t = "null" THEN Null
        ELSE IF ~Truthy(firstLine.v.timestamp) THEN Null
        ELSE IF firstLine.v.timestamp.t # "string" THEN Null
        ELSE JStr(Split(firstLine.v.timestamp.s, "T")[1])

\* content.split('\n').filter(l => l.trim())
NonBlank(raw) == SelectSeq(raw, LAMBDA l : l.k # "blank")

\* targetDates.includes(sessionDate)
Includes(dates, date) == \E i \in 1..Len(dates) : dates[i] = date

\* The test that lets a file into the aggregate.
\* A filter that lets a session without a date through.
Admitted_Dateless(dates, date) ==
    ~(Len(dates) > 0 /\ date # Null /\ ~Includes(dates, date))

Admitted(dates, date) == ~(Len(dates) > 0 /\ ~Includes(dates, date))

-----------------------------------------------------------------------------
(* The loop of analyze over the files.                                     *)

\* The next file: its date, the date filter, and (when admitted) its lines.
NextFile ==
    /\ pc = "loop"
    /\ lines = <<>> /\ calls = <<>>
    /\ fi <= Len(files)
    /\ LET file == files[fi]
           sessionDate == getSessionDate(file)
       IN  IF ~Admitted(targetDates, sessionDate)
           THEN UNCHANGED <<sessionsAnalyzed, sessionId, sessionDetails, lines>>
           ELSE /\ sessionsAnalyzed' = sessionsAnalyzed + 1
                /\ sessionId' = IF mode = "exact" THEN Basename(file.name) ELSE sessionId
                /\ sessionDetails' =
                      IF mode = "exact"
                      THEN Put(sessionDetails, Basename(file.name),
                               [t |-> "object", date |-> sessionDate,
                                tools |-> EmptyObject])
                      ELSE sessionDetails
                /\ lines' = NonBlank(file.raw)
    /\ fi' = fi + 1
    /\ UNCHANGED <<inputs, pc, flags, options, installedTools, files,
                   targetDates, toolCounts, sessionCounts, toolExamples,
                   totalCalls, calls, result>>

\* A reader that gives up at a line that does not parse.
NextLine_Abort ==
    /\ pc = "loop"
    /\ calls = <<>>
    /\ lines # <<>>
    /\ calls' = IF mode = "exact" THEN extractToolCalls_exact(Head(lines))
                ELSE extractToolCalls_fuzzy(Head(lines), installedTools)
    /\ lines' = Tail(lines)
    /\ pc' = IF Head(lines).k = "bad" THEN "crashed" ELSE pc
    /\ UNCHANGED <<inputs, flags, options, installedTools, files,
                   targetDates, aggregate, fi, sessionId, result>>

\* The next line of the file: extractToolCalls.
NextLine ==
    /\ pc = "loop"
    /\ calls = <<>>
    /\ lines # <<>>
    /\ calls' = IF mode = "exact" THEN extractToolCalls_exact(Head(lines))
                ELSE extractToolCalls_fuzzy(Head(lines), installedTools)
    /\ lines' = Tail(lines)
    /\ UNCHANGED <<inputs, pc, flags, options, installedTools, files,
                   targetDates, aggregate, fi, sessionId, result>>

\* toolCounts[call.name] = (toolCounts[call.name] || 0) + 1
CountCall(counts, key) == Put(counts, key, PlusOne(Or(Get(counts, key), JNum(0))))

NewSet == [t |-> "set", items |-> {}]

\* if (!sessionCounts[name]) sessionCounts[name] = new Set()
EnsureSet(sets, key) ==
    IF ~Truthy(Get(sets, key)) THEN Put(sets, key, NewSet) ELSE sets

\* sessionCounts[name].add(sessionId) throws unless sessionCounts[name] is a Set
CanAdd(sets, key) == Get(sets, key).t = "set"

\* A set that keeps only the last session added.
AddToSet_Last(sets, key, id) ==
    Put(sets, key, [t |-> "set", items |-> {id}])

AddToSet(sets, key, id) ==
    Put(sets, key, [t |-> "set", items |-> Get(sets, key).items \cup {id}])

\* sessionDetails[sessionId].tools[name] = (... || 0) + 1
CountInSession(details, id, key) ==
    Put(details, id,
        [t |-> "object", date |-> Get(details, id).date,
         tools |-> CountCall(Get(details, id).tools, key)])

ExampleCap == 3

\* if (!toolExamples[name]) toolExamples[name] = [];
\* if (toolExamples[name].length < 3) toolExamples[name].push(call.command)
\* An example list without its cap.
PushExample_NoCap(examples, key, command) ==
    LET have == IF Has(examples, key) THEN examples.at[key] ELSE <<>>
    IN  Put(examples, key, Append(have, command))

PushExample(examples, key, command) ==
    LET have == IF Has(examples, key) THEN examples.at[key] ELSE <<>>
    IN  IF Len(have) < ExampleCap THEN Put(examples, key, Append(have, command))
        ELSE Put(examples, key, have)

\* One event of the line is accumulated (exact mode).  A name that
\* Object.prototype defines finds an inherited function in sessionCounts,
\* and add throws out of analyze: the run ends without a report.
AccumulateExact ==
    /\ pc = "loop"
    /\ mode = "exact"
    /\ calls # <<>>
    /\ LET key == ToJSString(Head(calls).name)
           sets == EnsureSet(sessionCounts, key)
       IN  /\ totalCalls' = totalCalls + 1
           /\ toolCounts' = CountCall(toolCounts, key)
           /\ IF CanAdd(sets, key)
              THEN /\ sessionCounts' = AddToSet(sets, key, sessionId)
                   /\ sessionDetails' = CountInSession(sessionDetails, sessionId, key)
                   /\ calls' = Tail(calls)
                   /\ pc' = "loop"
              ELSE /\ sessionCounts' = sets
                   /\ pc' = "crashed"
                   /\ UNCHANGED <<sessionDetails, calls>>
    /\ UNCHANGED <<inputs, flags, options, installedTools, files, targetDates,
                   toolExamples, sessionsAnalyzed, fi, sessionId, lines, result>>

\* One event of the line is accumulated (fuzzy mode).
AccumulateFuzzy ==
    /\ pc = "loop"
    /\ mode = "fuzzy"
    /\ calls # <<>>
    /\ totalCalls' = totalCalls + 1
    /\ toolCounts' = CountCall(toolCounts, Head(calls).name)
    /\ toolExamples' = PushExample(toolExamples, Head(calls).name, Head(calls).command)
    /\ calls' = Tail(calls)
    /\ UNCHANGED <<inputs, pc, flags, options, installedTools, files,
                   targetDates, sessionCounts, sessionDetails,
                   sessionsAnalyzed, fi, sessionId, lines, result>>

-----------------------------------------------------------------------------
(* The report.                                                             *)

\* Object.entries(obj)
Entries(obj) == [i \in 1..Len(obj.keys) |-> [name |-> obj.keys[i], count |-> obj.at[obj.keys[i]].n]]

\* Array.prototype.sort is stable: an entry goes before the first one it
\* strictly precedes.
RECURSIVE InsertByCount(_, _, _)
InsertByCount(sorted, e, i) ==
    IF i > Len(sorted) THEN Append(sorted, e)
    ELSE IF sorted[i].count - e.count < 0
    THEN SubSeq(sorted, 1, i - 1) \o <<e>> \o SubSeq(sorted, i, Len(sorted))
    ELSE InsertByCount(sorted, e, i + 1)

\* entries.sort((a, b) => b[1] - a[1])
RECURSIVE SortByCount(_, _, _)
SortByCount(entries, i, sorted) ==
    IF i > Len(entries) THEN sorted
    ELSE SortByCount(entries, i + 1, InsertByCount(sorted, entries[i], 1))

\* The collation of the characters of a tool name: hyphen, digits, letters.
CharRank(c) ==
    IF c = "-" THEN 0
    ELSE IF IsDigit(c) THEN 1 + DigitVal(c)
    ELSE IF IsLower(c) THEN 10 + LowerPlace[c]
    ELSE 40

\* a.localeCompare(b) < 0, for names of lower-case letters, digits and hyphens
RECURSIVE LocaleBefore(_, _, _)
LocaleBefore(a, b, i) ==
    IF i > Len(b) THEN FALSE
    ELSE IF i > Len(a) THEN TRUE
    ELSE IF CharRank(At(a, i)) # CharRank(At(b, i))
    THEN CharRank(At(a, i)) < CharRank(At(b, i))
    ELSE LocaleBefore(a, b, i + 1)

RECURSIVE InsertByName(_, _, _)
InsertByName(sorted, e, i) ==
    IF i > Len(sorted) THEN Append(sorted, e)
    ELSE IF LocaleBefore(e.name, sorted[i].name, 1)
    THEN SubSeq(sorted, 1, i - 1) \o <<e>> \o SubSeq(sorted, i, Len(sorted))
    ELSE InsertByName(sorted, e, i + 1)

\* entries.sort((a, b) => a[0].localeCompare(b[0]))
RECURSIVE SortByName(_, _, _)
SortByName(entries, i, sorted) ==
    IF i > Len(entries) THEN sorted
    ELSE SortByName(entries, i + 1, InsertByName(sorted, entries[i], 1))

\* analyze (fuzzy mode): the used and the unused tools
UsedEntries(counts) ==
    SortByCount(SelectSeq(Entries(counts), LAMBDA e : e.count > 0), 1, <<>>)

UnusedEntries(counts) ==
    SortByName(SelectSeq(Entries(counts), LAMBDA e : e.count = 0), 1, <<>>)

Names(entries) == [i \in 1..Len(entries) |-> entries[i].name]

DateRange == IF Len(targetDates) > 0 THEN targetDates ELSE JStr("all")

\* sessionCounts[name]?.size || 0
SessionsOf(name) ==
    IF Has(sessionCounts, name) THEN Cardinality(sessionCounts.at[name].items) ELSE 0

\* ((count / totalCalls) * 100).toFixed(1), in tenths of a percent: the
\* nearest tenth, the larger of two equally near.
toFixed1(count, total) == (2000 * count + total) \div (2 * total)

\* analyze (exact mode): "Color coding based on usage".  pct is compared as
\* printed, that is, rounded to a tenth.
Prefix(count, pct) ==
    IF count = 1 THEN "white"
    ELSE IF pct < 10 THEN "blue"
    ELSE IF pct < 100 THEN "green"
    ELSE "fire"

\* One row of the table of the text report.
TableRow(e) ==
    LET pct == toFixed1(e.count, totalCalls)
    IN  [name |-> e.name, calls |-> e.count, sessions |-> SessionsOf(e.name),
         pct |-> pct, prefix |-> Prefix(e.count, pct)]

\* The recommendations of the text report.
LowUsage(sorted) == Names(SelectSeq(sorted, LAMBDA e : e.count <= 2))
HighUsage(sorted) == Names(SelectSeq(sorted, LAMBDA e : e.count * 100 > 15 * totalCalls))

\* The report of exact mode: the JSON document, or the same figures as text.
ReportExact ==
    LET sorted == SortByCount(Entries(toolCounts), 1, <<>>)
        text == ~Truthy(options.json)
    IN  [t |-> "object",
         table |-> IF text THEN [i \in 1..Len(sorted) |-> TableRow(sorted[i])] ELSE <<>>,
         lowUsage |-> IF text THEN LowUsage(sorted) ELSE <<>>,
         highUsage |-> IF text THEN HighUsage(sorted) ELSE <<>>,
         format |-> IF Truthy(options.json) THEN "json" ELSE "text",
         summary |-> [totalCalls |-> totalCalls,
                      uniqueTools |-> Len(toolCounts.keys),
                      sessionsAnalyzed |-> sessionsAnalyzed,
                      dateRange |-> DateRange],
         tools |-> [i \in 1..Len(sorted) |->
                      [name |-> sorted[i].name, calls |-> sorted[i].count,
                       sessions |-> SessionsOf(sorted[i].name),
                       percentage |-> toFixed1(sorted[i].count, totalCalls)]],
         sessions |-> IF Truthy(options.json) /\ Truthy(options.sessions)
                      THEN sessionDetails ELSE EmptyObject]

\* The report of fuzzy mode.
ReportFuzzy ==
    LET used == UsedEntries(toolCounts)
        unused == UnusedEntries(toolCounts)
    IN  [t |-> "object",
         format |-> IF Truthy(options.json) THEN "json" ELSE "text",
         summary |-> [totalCalls |-> totalCalls,
                      toolsUsed |-> Len(used),
                      toolsUnused |-> Len(unused),
                      totalTools |-> Len(installedTools),
                      sessionsAnalyzed |-> sessionsAnalyzed,
                      dateRange |-> DateRange],
         used |-> [i \in 1..Len(used) |->
                      [name |-> used[i].name, calls |-> used[i].count]],
         unused |-> Names(unused)]

\* After the last file: the lists are sorted and the report is printed.
Report ==
    /\ pc = "loop"
    /\ lines = <<>> /\ calls = <<>>
    /\ fi > Len(files)
    /\ result' = IF mode = "exact" THEN ReportExact ELSE ReportFuzzy
    /\ pc' = "done"
    /\ UNCHANGED <<inputs, flags, options, installedTools, files, targetDates,
                   aggregate, fi, sessionId, lines, calls>>

-----------------------------------------------------------------------------
(* Inputs.                                                                 *)

SeqsUpTo(S, n) == UNION {[1..k -> S] : k \in 0..n}

\* Clock readings: after a February of 28 and of 29 days, after a new
\* year, and inside a month.
Todays ==
    {[y |-> 2026, m |-> 3, d |-> 1], [y |-> 2024, m |-> 3, d |-> 2],
     [y |-> 2026, m |-> 1, d |-> 3], [y |-> 2026, m |-> 2, d |-> 3]}

DateArgPool ==
    {"--date=today", "--date=yesterday", "--date=2026-02-02", "--date=2.2.2026",
     "--date", "--days=0", "--days=-3", "--days=1", "--days=3", "--days=7",
     "--days=soon", "--days", "--json", "-h"}

EmptySkills == [ok |-> TRUE, entries |-> <<>>]

\* The state of a run before its first step.
Fresh ==
    /\ pc = "start"
    /\ flags = EmptyObject
    /\ options = NoOptions
    /\ installedTools = <<>>
    /\ files = <<>>
    /\ targetDates = <<>>
    /\ toolCounts = EmptyObject
    /\ sessionCounts = EmptyObject
    /\ sessionDetails = EmptyObject
    /\ toolExamples = EmptyObject
    /\ totalCalls = 0
    /\ sessionsAnalyzed = 0
    /\ fi = 1
    /\ sessionId = ""
    /\ lines = <<>>
    /\ calls = <<>>
    /\ result = Undefined

\* Lines and what they hold.
BlankLine == [k |-> "blank", v |-> Undefined]
BadLine == [k |-> "bad", v |-> Undefined]
Json(v) == [k |-> "json", v |-> v]
Record(type, content, timestamp, id) ==
    [t |-> "object", type |-> type, content |-> content,
     timestamp |-> timestamp, id |-> JStr(id)]
Array(items) == [t |-> "array", items |-> items]
Block(type, name, command) ==
    [t |-> "object", type |-> type, name |-> name, command |-> command]
ToolCall(name) == Block("toolCall", JStr(name), Undefined)
Exec(type, cmd) == Block(type, JStr("exec"), JStr(cmd))
TextBlock == Block("text", Undefined, Undefined)

Stamp(date) == JStr(toISODate(date) \o "T08:15:30.000Z")
Header(timestamp, id) == Json(Record("session", Undefined, timestamp, id))
Message(blocks, timestamp, id) == Json(Record("message", Array(blocks), timestamp, id))

\* The session files a directory is drawn from, around the date of the
\* clock: dated today, the day before and 2026-02-02, and three without a
\* date (first line malformed, blank, without a timestamp).
FileToday ==
    [name |-> "s-a.jsonl",
     raw |-> <<Header(Stamp(now), "a0"),
               Message(<<ToolCall("read"),
                         Exec("toolCall", "node skills/claw-lint/index.js --fix")>>,
                       Stamp(now), "a1")>>]

FileYesterday ==
    [name |-> "s-b.jsonl",
     raw |-> <<Header(Stamp(setDate(now, now.d - 1)), "b0"),
               BadLine,
               Message(<<Exec("tool_use", "claw-git status && CLAW-LINT ."),
                         TextBlock, ToolCall("read")>>,
                       Stamp(now), "b1")>>]

FileBadFirst ==
    [name |-> "s-c.jsonl",
     raw |-> <<BadLine,
               Message(<<Exec("toolCall", "cd claw-git/ && node index.js")>>,
                       Stamp(now), "c1")>>]

FileOld ==
    [name |-> "s-d.jsonl",
     raw |-> <<Message(<<ToolCall("write")>>, JStr("2026-02-02T23:59:59.000Z"), "d0"),
               BlankLine,
               Json(Null),
               Message(<<ToolCall("write"), Null, ToolCall("read")>>,
                       JStr("2026-02-03T00:00:01.000Z"), "d0")>>]

FileBlankFirst ==
    [name |-> "s-e.jsonl",
     raw |-> <<BlankLine,
               Header(Stamp(now), "e0"),
               Message(<<ToolCall("constructor")>>, Stamp(now), "e1")>>]

FileNoStamp ==
    [name |-> "s-f.jsonl",
     raw |-> <<Header(Undefined, "f0"),
               Json(Record("message", JStr("plain text"), Stamp(now), "f1")),
               Message(<<Block("toolCall", JStr("exec"), Undefined),
                         Exec("toolCall", "xclaw-lintx --version"),
                         Block("toolResult", JStr("exec"), JStr("claw-zip "))>>,
                       Stamp(now), "f2"),
               Message(<<Exec("toolCall", "claw-zip -r out.zip ."),
                         Exec("toolCall", "ls skills/claw-zip")>>,
                       Stamp(now), "f3")>>]

\* An entry of the directory that is no transcript.
FileIndex ==
    [name |-> "sessions.json",
     raw |-> <<Message(<<ToolCall("read")>>, Stamp(now), "x0")>>]

FileCatalog ==
    {FileToday, FileYesterday, FileBadFirst, FileOld, FileBlankFirst,
     FileNoStamp, FileIndex}

\* Directory listings: up to MaxFiles entries, no name twice, in any order.
Listings ==
    {l \in SeqsUpTo(FileCatalog, MaxFiles) :
        \A i, j \in 1..Len(l) : i # j => l[i] # l[j]}

\* The entries of the skills directory, in the order readdir lists them.
SkillPool ==
    <<[name |-> "claw-lint", isDir |-> TRUE],
      [name |-> "claw-git", isDir |-> TRUE],
      [name |-> "claw-zip", isDir |-> TRUE],
      [name |-> "claw-notes.md", isDir |-> FALSE]>>

SkillListings ==
    {SelectSeq(SkillPool, LAMBDA e : e.name \in S) :
        S \in {T \in SUBSET {SkillPool[i].name : i \in 1..Len(SkillPool)} :
                 Cardinality(T) <= MaxTools}}

SkillDirs ==
    {[ok |-> FALSE, entries |-> <<>>]} \cup {[ok |-> TRUE, entries |-> l] : l \in SkillListings}

RunArgs ==
    {<<>>, <<"--json">>, <<"--date=2026-02-02", "--json">>, <<"--days=2", "-v">>,
     <<"--days=-3", "--json">>, <<"--date=today", "--json", "--sessions">>,
     <<"--help">>}

RunClock == [y |-> 2026, m |-> 3, d |-> 1]

-----------------------------------------------------------------------------
(* The date resolver alone: every command line of DateArgPool, every       *)
(* clock reading, an empty sessions directory.                             *)

InitDate ==
    /\ mode \in {"exact", "fuzzy"}
    /\ argv \in SeqsUpTo(DateArgPool, MaxArgs)
    /\ now \in Todays
    /\ sessionsDir = <<>>
    /\ skillsDir = EmptySkills
    /\ Fresh

NextDate == Main \/ AnalyzeBegin

SpecDate == InitDate /\ [][NextDate]_vars

-----------------------------------------------------------------------------
(* The whole run: every listing of the sessions directory, every listing   *)
(* of the skills directory (fuzzy mode), the command lines of RunArgs.     *)

Init ==
    /\ mode \in {"exact", "fuzzy"}
    /\ argv \in RunArgs
    /\ now = RunClock
    /\ sessionsDir \in Listings
    /\ skillsDir \in IF mode = "fuzzy" THEN SkillDirs ELSE {EmptySkills}
    /\ Fresh

Next ==
    \/ Main
    \/ AnalyzeBegin
    \/ NextFile
    \/ NextLine
    \/ AccumulateExact
    \/ AccumulateFuzzy
    \/ Report

Spec == Init /\ [][Next]_vars

-----------------------------------------------------------------------------
(* The fuzzy matcher on generated commands: one session file dated today,  *)
(* whose second line holds one block with the command.                     *)

Pieces == {"claw-lint", "claw-git", "CLAW-LINT", "skills/", "/", " ", "x", "-"}

RECURSIVE Concat(_, _)
Concat(parts, i) == IF i > Len(parts) THEN "" ELSE parts[i] \o Concat(parts, i + 1)

Commands ==
    {Concat(parts, 1) : parts \in SeqsUpTo(Pieces, MaxPieces)}
    \cup {"node skills/claw-lint/index.js --fix", "claw-lint . && claw-git status"}

MatchBlocks ==
    {Exec("toolCall", c) : c \in Commands}
    \cup {Exec("tool_use", "claw-lint . && claw-git status")}
    \cup {Block("toolCall", JStr(n), JStr("claw-lint . && claw-git status")) :
            n \in {"execute", "Exec"}}

MatchFile(block) ==
    [name |-> "s-m.jsonl",
     raw |-> <<Header(Stamp(now), "m0"), Message(<<block>>, Stamp(now), "m1")>>]

LintAndGit ==
    [ok |-> TRUE, entries |-> <<SkillPool[1], SkillPool[2]>>]

InitMatch ==
    /\ mode \in {"exact", "fuzzy"}
    /\ argv = <<"--json">>
    /\ now = RunClock
    /\ sessionsDir \in {<<MatchFile(b)>> : b \in MatchBlocks}
    /\ skillsDir = IF mode = "fuzzy" THEN LintAndGit ELSE EmptySkills
    /\ Fresh

SpecMatch == InitMatch /\ [][Next]_vars

-----------------------------------------------------------------------------
(* The table of exact mode: one session in which a tool is called a few    *)
(* times among many calls of another, so that its share of the total runs  *)
(* from under 1% to 50%.                                                   *)

MaxRare == 3       \* calls of the less used tool

\* The calls of the session in all.
Totals == {2, 4, 6, 16, 20, 24, 40, 250, 400}

Repeat(name, n) == [i \in 1..n |-> ToolCall(name)]

\* n calls of a tool, PerLine to a message.
PerLine == 25

RepeatLines(name, n) ==
    [i \in 1..((n + PerLine - 1) \div PerLine) |->
        Message(Repeat(name, Min(PerLine, n - (i - 1) * PerLine)), Stamp(now), "l2")]

LegendFile(rare, total) ==
    [name |-> "s-l.jsonl",
     raw |-> <<Header(Stamp(now), "l0"),
               Message(Repeat("nodes", rare), Stamp(now), "l1")>>
             \o RepeatLines("exec", total - rare)]

InitLegend ==
    /\ mode = "exact"
    /\ argv \in {<<>>, <<"--json">>}
    /\ now = RunClock
    /\ sessionsDir \in {<<LegendFile(rare, total)>> : rare \in 1..MaxRare, total \in Totals}
    /\ skillsDir = EmptySkills
    /\ Fresh

NextLegend ==
    \/ Main
    \/ AnalyzeBegin
    \/ NextFile
    \/ NextLine
    \/ AccumulateExact
    \/ Report

SpecLegend == InitLegend /\ [][NextLegend]_vars

-----------------------------------------------------------------------------
(* The examples of fuzzy mode: up to MaxEvents exec blocks whose commands  *)
(* run shorter and longer than the 100 characters kept, in one message,    *)
(* in a message each, or in a file each.                                   *)

MaxEvents == 4     \* exec blocks of the run

Filler == "0123456789abcdefghijklmnopqrstuvwxyz0123456789abcdefghijklmnopqrstuvwxyz0123456789abcdefghijklmnopqrstuvwxyz0123456789abcdefghijklmnopqrstuvwxyz"

\* A command of n characters.
CommandOfLength(start, n) == SubSeq(start \o Filler, 1, n)

ExampleCommands ==
    {"claw-lint .",
     CommandOfLength("node skills/claw-lint/index.js ", 101),
     CommandOfLength("claw-git log && claw-lint ", 120)}

Layouts == {"blocks", "lines", "files"}

ExampleFile(k, blocks) ==
    [name |-> "s-x" \o ToString(k) \o ".jsonl",
     raw |-> <<Header(Stamp(now), "x0")>>
             \o [i \in 1..Len(blocks) |-> Message(blocks[i], Stamp(now), "x1")]]

ExampleListing(cmds, layout) ==
    LET execs == [i \in 1..Len(cmds) |-> Exec("toolCall", cmds[i])]
    IN  IF layout = "blocks" THEN <<ExampleFile(1, <<execs>>)>>
        ELSE IF layout = "lines"
        THEN <<ExampleFile(1, [i \in 1..Len(execs) |-> <<execs[i]>>])>>
        ELSE [i \in 1..Len(execs) |-> ExampleFile(i, <<<<execs[i]>>>>)]

InitExamples ==
    /\ mode = "fuzzy"
    /\ argv = <<"--json">>
    /\ now = RunClock
    /\ sessionsDir \in {ExampleListing(cmds, layout) :
                            cmds \in SeqsUpTo(ExampleCommands, MaxEvents) \ {<<>>},
                            layout \in Layouts}
    /\ skillsDir = LintAndGit
    /\ Fresh

NextExamples ==
    \/ Main
    \/ AnalyzeBegin
    \/ NextFile
    \/ NextLine
    \/ AccumulateFuzzy
    \/ Report

SpecExamples == InitExamples /\ [][NextExamples]_vars

-----------------------------------------------------------------------------
(* What the claims speak of.                                               *)

\* The filter has been resolved.
Resolved == pc \notin {"start", "help", "analyze"}

\* No --date on the command line; an explicit date token on it.
NoDateFlag == ~Has(flags, "date")
NoDaysFlag == ~Has(flags, "days")
DateToken == Get(flags, "date")
HasDateToken == DateToken.t = "string"

\* The day-count given with --days.
DayCount == parseInt(Get(flags, "days"))
HasDayCount == ~NoDaysFlag /\ DayCount.t = "number"

\* Days since 0000-03-01 of a civil date (independent of MakeDay).
Ord(date) ==
    LET yy == IF date.m <= 2 THEN date.y - 1 ELSE date.y
        mp == (date.m + 9) % 12
    IN  365 * yy + (yy \div 4) - (yy \div 100) + (yy \div 400)
        + ((153 * mp + 2) \div 5) + date.d - 1

\* The civil date a YYYY-MM-DD string names.
ReadISO(str) ==
    [y |-> ParseIntString(SubSeq(str, 1, 4)).n,
     m |-> ParseIntString(SubSeq(str, 6, 7)).n,
     d |-> ParseIntString(SubSeq(str, 9, 10)).n]

IsISODate(v) ==
    /\ v.t = "string"
    /\ Len(v.s) = 10
    /\ At(v.s, 5) = "-" /\ At(v.s, 8) = "-"
    /\ \A i \in {1, 2, 3, 4, 6, 7, 9, 10} : IsDigit(At(v.s, i))
    /\ ReadISO(v.s).m \in 1..12
    /\ ReadISO(v.s).d \in 1..DaysInMonth(ReadISO(v.s).y, ReadISO(v.s).m)

Today == JStr(toISODate(now))

\* v names the calendar date k days before the clock's.
IsDaysAgo(v, k) == IsISODate(v) /\ Ord(ReadISO(v.s)) = Ord(now) - k

\* The date a session file carries: the date part of the ISO timestamp of
\* its first line, null when that line does not parse or has none.
FirstLineDate(file) ==
    LET first == file.raw[1]
    IN  IF first.k = "json" /\ first.v.t = "object"
           /\ first.v.timestamp.t = "string" /\ first.v.timestamp.s # ""
        THEN JStr(SubSeq(first.v.timestamp.s, 1, 10))
        ELSE Null

\* The file passes the resolved filter.
InWindow(file) ==
    Len(targetDates) = 0 \/ FirstLineDate(file) \in {targetDates[i] : i \in 1..Len(targetDates)}

\* The events of a line, of some lines, of a file.
EventsOfLine(line) ==
    IF mode = "exact" THEN extractToolCalls_exact(line)
    ELSE extractToolCalls_fuzzy(line, installedTools)

RECURSIVE EventsOfLines(_, _)
EventsOfLines(ls, i) ==
    IF i > Len(ls) THEN <<>> ELSE EventsOfLine(ls[i]) \o EventsOfLines(ls, i + 1)

EventsOfFile(file) == EventsOfLines(NonBlank(file.raw), 1)

\* The tool an event counts for.
EventName(e) == IF mode = "exact" THEN ToJSString(e.name) ELSE e.name

CountNamed(events, k) ==
    Cardinality({i \in 1..Len(events) : EventName(events[i]) = k})

NamesIn(events) == {EventName(events[i]) : i \in 1..Len(events)}

\* The sum of f over S.
RECURSIVE SumFn(_, _)
SumFn(f, S) ==
    IF S = {} THEN 0
    ELSE LET x == CHOOSE x \in S : TRUE IN f[x] + SumFn(f, S \ {x})

\* The files of the run as a set, those visited so far, and those among
\* them the filter lets in.
FileSet == {files[i] : i \in 1..Len(files)}
Visited == {files[i] : i \in 1..(fi - 1)}
LetIn(F) == {f \in F : InWindow(f)}

\* The events of a set of files, and those of them for tool k.
TotalOf(F) == SumFn([f \in F |-> Len(EventsOfFile(f))], F)
TotalNamed(F, k) == SumFn([f \in F |-> CountNamed(EventsOfFile(f), k)], F)
AllNames(F) == UNION {NamesIn(EventsOfFile(f)) : f \in F}

Installed == {installedTools[i] : i \in 1..Len(installedTools)}

\* The run stands between two files, or is over.
BetweenFiles == pc = "loop" /\ lines = <<>> /\ calls = <<>>
Done == pc = "done"

-----------------------------------------------------------------------------
(* C1 - C4: the date resolver.                                             *)

\* C1: with no --date and a day-count of 0 or less, the resolved filter is
\* exactly the current date, in both modes.  (The code does so for 0 and
\* not for a negative count, whose loop adds no date: the filter is empty
\* and every session is admitted.)
C1_ClampToOne ==
    (Resolved /\ NoDateFlag /\ HasDayCount /\ DayCount.n <= 0)
        => targetDates = <<Today>>

DatedToday == {f \in FileSet : FirstLineDate(f) = Today}

\* C2, as claimed: with neither --date nor --days the resolved filter is
\* exactly the current date and only the sessions dated today are
\* admitted, in both modes.
C2_DefaultIsTodayInBothModes ==
    (Resolved /\ NoDateFlag /\ NoDaysFlag)
        => /\ targetDates = <<Today>>
           /\ Done => sessionsAnalyzed = Cardinality(DatedToday)

\* C2, amended: with neither --date nor --days, fuzzy mode resolves the
\* filter to exactly the current date and admits only the sessions dated
\* today; exact mode resolves no filter and admits every session.
C2_DefaultWindow ==
    (Resolved /\ NoDateFlag /\ NoDaysFlag)
        => /\ mode = "fuzzy" => /\ targetDates = <<Today>>
                                /\ Done => sessionsAnalyzed = Cardinality(DatedToday)
           /\ mode = "exact" => /\ targetDates = <<>>
                                /\ Done => sessionsAnalyzed = Len(files)

C2_Witness ==
    /\ Done /\ NoDateFlag /\ NoDaysFlag
    /\ mode = "fuzzy" /\ targetDates = <<Today>>
    /\ Len(files) = 2 /\ sessionsAnalyzed = 1

-----------------------------------------------------------------------------
(* C5 - C9: admission, aggregation, report.                                *)

\* C5: between two files and at the end, the sessions counted are exactly
\* the visited files whose first-line date passes the filter (every file
\* when the filter is empty), the events counted are exactly theirs, and
\* exact mode records each of them, and no other, with that date (null for
\* a file without one).
C5_SessionAdmission ==
    (BetweenFiles \/ Done)
        => /\ sessionsAnalyzed = Cardinality(LetIn(Visited))
           /\ totalCalls = TotalOf(LetIn(Visited))
           /\ mode = "exact" =>
                \A f \in Visited :
                    /\ Has(sessionDetails, Basename(f.name)) <=> InWindow(f)
                    /\ InWindow(f) =>
                         sessionDetails.at[Basename(f.name)].date = FirstLineDate(f)

C5_Witness ==
    /\ Done /\ Len(targetDates) > 0
    /\ Len(files) = 2 /\ sessionsAnalyzed = 1 /\ totalCalls > 0
    /\ \E f \in FileSet : FirstLineDate(f) = Null /\ Len(EventsOfFile(f)) > 0

\* The counts of an object are numbers, and their sum.
NumericCounts(obj) == \A k \in DOMAIN obj.at : obj.at[k].t = "number"
CountsSum(obj) == SumFn([k \in DOMAIN obj.at |-> obj.at[k].n], DOMAIN obj.at)

\* The events accumulated so far: those of the admitted files visited,
\* less those of the lines still to read and those still to accumulate.
Accumulated ==
    TotalOf(LetIn(Visited)) - Len(EventsOfLines(lines, 1)) - Len(calls)

\* C6: after every accumulation step totalCalls is the number of events
\* aggregated and the per-tool counts sum to it, in both modes.  (In exact
\* mode an event named after a key every object inherits, such as
\* "constructor", is counted in totalCalls, leaves a string in toolCounts
\* and ends the run at sessionCounts[name].add.)
C6_Conservation ==
    Resolved
        => /\ totalCalls = Accumulated
           /\ NumericCounts(toolCounts)
           /\ CountsSum(toolCounts) = totalCalls

\* C7: the final totals, per-tool counts, per-tool session sets and
\* sessionsAnalyzed are those of the set of files, whatever the order in
\* which the directory lists them.
C7_OrderIndependence ==
    Done
        => LET in == LetIn(FileSet)
               names == AllNames(in)
           IN  /\ totalCalls = TotalOf(in)
               /\ sessionsAnalyzed = Cardinality(in)
               /\ DOMAIN toolCounts.at = IF mode = "exact" THEN names ELSE Installed
               /\ \A k \in DOMAIN toolCounts.at :
                     toolCounts.at[k] = JNum(TotalNamed(in, k))
               /\ mode = "exact" =>
                     /\ DOMAIN sessionCounts.at = names
                     /\ \A k \in names :
                           sessionCounts.at[k].items =
                              {Basename(f.name) : f \in {g \in in : CountNamed(EventsOfFile(g), k) > 0}}

C7_Witness ==
    /\ Done /\ mode = "exact"
    /\ Len(files) = 2 /\ files[1] = FileYesterday /\ files[2] = FileToday
    /\ sessionsAnalyzed = 2 /\ totalCalls = 4

\* C8: the step that reads a malformed line yields no event, raises no
\* error and changes no count, and leaves the rest of the file and the
\* files after it to be read.
ReadsBadLine == pc = "loop" /\ calls = <<>> /\ lines # <<>> /\ Head(lines).k = "bad"

C8_MalformedLineTolerance ==
    [][ReadsBadLine =>
         /\ calls' = <<>>
         /\ pc' = "loop"
         /\ lines' = Tail(lines)
         /\ fi' = fi
         /\ UNCHANGED aggregate]_vars

C8_Witness ==
    /\ Done /\ mode = "exact" /\ Len(targetDates) = 0
    /\ Len(files) = 2 /\ files[1] = FileYesterday /\ files[2] = FileToday
    /\ result.summary.totalCalls = 4

\* Code-unit order of the characters of a tool name.
CodeOrder == "-.0123456789_abcdefghijklmnopqrstuvwxyz"
CodePlace == PlaceIn(CodeOrder)

\* a < b lexicographically
LexLess(a, b) ==
    \E i \in 1..(Len(b)) :
        /\ SubSeq(a, 1, Min(i - 1, Len(a))) = SubSeq(b, 1, i - 1)
        /\ (i > Len(a) \/ CodePlace[At(a, i)] < CodePlace[At(b, i)])

\* C9: in the JSON report of fuzzy mode, unused lists exactly the installed
\* tools without an event in the admitted files, in lexicographic order;
\* used lists exactly the others, by descending count; every installed
\* tool is in exactly one of the two and nothing else is in either.
C9_UsedUnusedPartition ==
    (Done /\ mode = "fuzzy" /\ result.format = "json")
        => LET in == LetIn(FileSet)
               zero == {k \in Installed : TotalNamed(in, k) = 0}
               U == result.unused
               V == result.used
           IN  /\ Cardinality(Installed) = Len(installedTools)
               /\ {U[i] : i \in 1..Len(U)} = zero
               /\ Len(U) = Cardinality(zero)
               /\ \A i, j \in 1..Len(U) : i < j => LexLess(U[i], U[j])
               /\ {V[i].name : i \in 1..Len(V)} = Installed \ zero
               /\ Len(V) = Len(installedTools) - Cardinality(zero)
               /\ \A i, j \in 1..Len(V) : i < j => V[i].calls >= V[j].calls
               /\ \A i \in 1..Len(V) : V[i].calls = TotalNamed(in, V[i].name)

C9_Witness ==
    /\ Done /\ mode = "fuzzy" /\ result.format = "json"
    /\ result.unused = <<"claw-git">>
    /\ Len(result.used) = 1 /\ result.used[1].name = "claw-lint"

-----------------------------------------------------------------------------
(* C10: the fuzzy matcher.                                                 *)

\* The block of the generated file and its command.
TheBlock == sessionsDir[1].raw[2].v.content.items[1]
TheCommand == TheBlock.command.s
IsExec(block) == IsToolBlock(block) /\ block.name = JStr("exec")

\* The line with the block has just been read: calls is what
\* extractToolCalls returned for it.
JustExtracted ==
    /\ mode = "fuzzy" /\ pc = "loop"
    /\ fi = 2 /\ sessionsAnalyzed = 1 /\ lines = <<>> /\ totalCalls = 0

\* name occurs in cmd at i, whatever the case of the letters.
OccursAt(cmd, name, i) ==
    /\ i >= 1
    /\ i + Len(name) - 1 <= Len(cmd)
    /\ ToLower(SubSeq(cmd, i, i + Len(name) - 1)) = ToLower(name)

FollowedBySeparator(cmd, name) ==
    \E i \in 1..Len(cmd) :
        OccursAt(cmd, name, i) /\ At(cmd, i + Len(name)) \in {"/", " ", "\t", "\n", "\r"}

UnderSkills(cmd, name) ==
    \E i \in 1..Len(cmd) : OccursAt(cmd, name, i) /\ OccursAt(cmd, "skills/", i - 7)

AsWholeWord(cmd, name) ==
    \E i \in 1..Len(cmd) :
        /\ OccursAt(cmd, name, i)
        /\ ~IsWord(At(cmd, i - 1))
        /\ ~IsWord(At(cmd, i + Len(name)))

AnyPattern(cmd, name) ==
    FollowedBySeparator(cmd, name) \/ UnderSkills(cmd, name) \/ AsWholeWord(cmd, name)

\* cmd contains name, letter for letter.
Contains(cmd, name) ==
    \E i \in 1..Len(cmd) :
        i + Len(name) - 1 <= Len(cmd) /\ SubSeq(cmd, i, i + Len(name) - 1) = name

EventsFor(tool) == Cardinality({i \in 1..Len(calls) : calls[i].name = tool})

\* One event per installed tool with a matching pattern, none otherwise;
\* nothing for a block not named exec; the example of the claim.
OneEventPerMatchingTool ==
    /\ IsExec(TheBlock) =>
          \A tool \in Installed :
              EventsFor(tool) = IF AnyPattern(TheCommand, tool) THEN 1 ELSE 0
    /\ ~IsExec(TheBlock) => calls = <<>>
    /\ \A i \in 1..Len(calls) : calls[i].name \in Installed
    /\ (IsExec(TheBlock) /\ TheCommand = "node skills/claw-lint/index.js --fix")
          => Len(calls) = 1 /\ calls[1].name = "claw-lint"

-----------------------------------------------------------------------------
(* C11: the legend of the table of exact mode.                             *)

\* The icon the legend gives a tool with so many calls of so many in all:
\* rarely used with 1 or 2 calls, else heavy above 15%, normal from 1% to
\* 15%, low under 1%.
Legend(count, total) ==
    IF count <= 2 THEN "white"
    ELSE IF 100 * count > 15 * total THEN "fire"
    ELSE IF 100 * count >= total THEN "green"
    ELSE "blue"

TextReport == Done /\ mode = "exact" /\ result.format = "text"

\* C11: in the table of the text report of exact mode every tool carries
\* the icon of the legend: heavy exactly when its share of the calls is
\* above 15%, normal from 1% to 15%, low under 1%, rarely used with 1 or 2
\* calls in all.
C11_UsageLegend ==
    TextReport
        => \A i \in 1..Len(result.table) :
              result.table[i].prefix = Legend(result.table[i].calls, totalCalls)

\* The lists under the table do follow the figures of the legend: low
\* usage is 1 or 2 calls, heavy usage a share above 15%.
RecommendationsFollowLegend ==
    TextReport
        => LET rows == result.table
               low == {rows[i].name : i \in {j \in 1..Len(rows) : rows[j].calls <= 2}}
               high == {rows[i].name :
                          i \in {j \in 1..Len(rows) : 100 * rows[j].calls > 15 * totalCalls}}
           IN  /\ {result.lowUsage[i] : i \in 1..Len(result.lowUsage)} = low
               /\ {result.highUsage[i] : i \in 1..Len(result.highUsage)} = high

-----------------------------------------------------------------------------
(* C12: the examples of fuzzy mode.                                        *)

RECURSIVE Flatten(_, _)
Flatten(seqs, i) == IF i > Len(seqs) THEN <<>> ELSE seqs[i] \o Flatten(seqs, i + 1)

\* The tools a command invokes, each with the command as written, in the
\* order of the installed tools.
InvokedBy(block) ==
    IF block.t = "object" /\ IsExec(block) /\ block.command.t = "string"
    THEN LET found == ToolLoop([timestamp |-> Undefined], block.command.s, installedTools, 1)
         IN  [j \in 1..Len(found) |-> [tool |-> found[j].name, cmd |-> block.command.s]]
    ELSE <<>>

InvokedInLine(line) ==
    IF line.k = "json" /\ line.v.t = "object" /\ line.v.type = "message"
       /\ line.v.content.t = "array"
    THEN Flatten([i \in 1..Len(line.v.content.items) |->
                    InvokedBy(line.v.content.items[i])], 1)
    ELSE <<>>

InvokedInLines(ls) == Flatten([i \in 1..Len(ls) |-> InvokedInLine(ls[i])], 1)

\* The invocations of the files visited, in the order of the run, and
\* those of them accumulated so far.
InvokedSoFar ==
    LET all == Flatten([i \in 1..(fi - 1) |->
                          IF InWindow(files[i]) THEN InvokedInLines(files[i].raw) ELSE <<>>], 1)
    IN  SubSeq(all, 1, Len(all) - Len(InvokedInLines(lines)) - Len(calls))

\* The first 100 characters of a command, all of it when it is shorter.
First100(cmd) == IF Len(cmd) <= 100 THEN cmd ELSE SubSeq(cmd, 1, 100)

\* C12: at every point of the aggregation of fuzzy mode and for every
\* installed tool, the examples stored are at most 3, as many as
\* min(3, the tool's invocations so far), and they are the first 100
\* characters of the commands of the tool's first invocations, in the
\* order of processing.
C12_ExampleCapture ==
    (mode = "fuzzy" /\ Resolved)
        => LET sofar == InvokedSoFar
           IN  \A k \in Installed :
                  LET mine == SelectSeq(sofar, LAMBDA e : e.tool = k)
                      kept == toolExamples.at[k]
                  IN  /\ Len(kept) <= 3
                      /\ Len(kept) = Min(3, toolCounts.at[k].n)
                      /\ toolCounts.at[k].n = Len(mine)
                      /\ \A i \in 1..Len(kept) : kept[i] = First100(mine[i].cmd)

C12_Witness ==
    /\ mode = "fuzzy" /\ Done
    /\ toolCounts.at["claw-lint"].n = 4
    /\ Len(toolExamples.at["claw-lint"]) = 3
    /\ Len(toolExamples.at["claw-lint"][1]) = 100
    /\ Len(toolExamples.at["claw-lint"][2]) < 100
    /\ \E f \in FileSet : \E i \in 1..Len(f.raw) :
          InvokedInLine(f.raw[i]) # <<>> /\ Len(InvokedInLine(f.raw[i])[1].cmd) > 100

-----------------------------------------------------------------------------
(* C13: the sessions of a tool in exact mode.                              *)

\* The events of the i-th file accumulated so far: none of a file the
\* filter keeps out, all of a file read to its end, and of the file being
\* read those before the lines and the events still waiting.
AccumulatedOf(i) ==
    IF ~InWindow(files[i]) THEN <<>>
    ELSE LET all == EventsOfFile(files[i])
         IN  IF i = fi - 1
             THEN SubSeq(all, 1, Len(all) - Len(EventsOfLines(lines, 1)) - Len(calls))
             ELSE all

\* The files visited with an accumulated event for tool k.
FilesWith(k) == {i \in 1..(fi - 1) : CountNamed(AccumulatedOf(i), k) > 0}

\* sessionDetails[s].tools[k], 0 when the session has none.
DetailOf(s, k) ==
    LET tools == sessionDetails.at[s].tools
    IN  IF Has(tools, k) THEN tools.at[k].n ELSE 0

DetailSum(k) ==
    SumFn([s \in DOMAIN sessionDetails.at |-> DetailOf(s, k)], DOMAIN sessionDetails.at)

\* C13: in exact mode, after any sequence of accumulated events and for
\* every tool T of toolCounts: the sessions of T are the admitted files,
\* by file name, with at least one event for T, and their number is what
\* the report gives; the sessionDetails counts of T sum to toolCounts[T];
\* 1 <= sessions(T) <= min(toolCounts[T], sessionsAnalyzed); and every
\* event is counted in exactly one session, that of its file, and for
\* exactly one tool.
C13_SessionBookkeeping ==
    (mode = "exact" /\ Resolved)
        => /\ \A k \in DOMAIN toolCounts.at :
                /\ toolCounts.at[k].t = "number"
                /\ Has(sessionCounts, k)
                /\ sessionCounts.at[k].items = {Basename(files[i].name) : i \in FilesWith(k)}
                /\ SessionsOf(k) = Cardinality(FilesWith(k))
                /\ DetailSum(k) = toolCounts.at[k].n
                /\ 1 <= SessionsOf(k)
                /\ SessionsOf(k) <= Min(toolCounts.at[k].n, sessionsAnalyzed)
                /\ \A i \in 1..(fi - 1) :
                      InWindow(files[i]) =>
                         DetailOf(Basename(files[i].name), k) = CountNamed(AccumulatedOf(i), k)
           /\ \A i \in 1..(fi - 1) :
                 \A k \in NamesIn(AccumulatedOf(i)) : k \in DOMAIN toolCounts.at
           /\ NumericCounts(toolCounts) =>
                 CountsSum(toolCounts)
                    = SumFn([i \in 1..(fi - 1) |-> Len(AccumulatedOf(i))], 1..(fi - 1))
           /\ Done => \A j \in 1..Len(result.tools) :
                 result.tools[j].sessions = Cardinality(FilesWith(result.tools[j].name))

=============================================================================
